---------------------------- MODULE Spec2Model ----------------------------
(***************************************************************************)
(* Node bootstrap (nodeup.sh user-data script) and AWS node identity       *)
(* resolution (pkg/nodeidentity/aws/identify.go) of kops.                  *)
(*                                                                         *)
(* Strings whose structure the code inspects (uname output, URL lists,     *)
(* provider ids, tag keys) are sequences of characters or tokens; the      *)
(* string functions the code applies to them are operators over those      *)
(* sequences.                                                              *)
(***************************************************************************)
EXTENDS Integers, Sequences, FiniteSets, TLC

(***************************************************************************)
(* Bounds of the model (not program constants).                            *)
(***************************************************************************)
\* the ghost counter of transport attempts saturates here
MaxAttempts == 10
\* the ghost counter of 60-second sleeps saturates here
MaxSleeps == 2
\* the clock stops advancing here (minutes)
MaxTime == 61
\* IdentifyNode is called at most this many times in a behaviour
MaxCalls == 3
\* number of concurrent callers of IdentifyNode
NumCallers == 2

(***************************************************************************)
(* Part I.  nodeup.sh                                                      *)
(***************************************************************************)
VARIABLES
    arch,        \* output of `uname -m`, a sequence of characters
    bpc,         \* position of the script
    NODEUP_URL,   \* NODEUP_URL  (comma separated list), <<>> while unset
    NODEUP_HASH,  \* NODEUP_HASH, "" while unset
    file,        \* content of ${INSTALL_DIR}/bin/nodeup, or NoFile
    fileExec,    \* the file has its executable bit set
    urlIdx,      \* index of `url` in the `for url` loop
    cmdIdx,      \* index of `cmd` in the `for cmd` loop
    exitStatus,  \* exit status of the script, -1 while it runs
    agentRuns,   \* ghost: number of times ./nodeup was started
    nodeupProc,  \* the ./nodeup process: "none", "running", "exit 0", "exit 1"
    attempts,    \* ghost: number of transport commands run (saturating)
    sleeps,      \* ghost: number of `sleep 60` executed (saturating)
    last,        \* ghost: outcome of the most recent transport command
    file0,       \* ghost: the destination file when the script started
    allowed,     \* environment: per mirror, how its transfers end
    good         \* environment: a (url, cmd) pair that has become reliable

bootVars == <<arch, bpc, NODEUP_URL, NODEUP_HASH, file, fileExec, urlIdx, cmdIdx,
              exitStatus, agentRuns, nodeupProc, attempts, sleeps, last, file0,
              allowed, good>>

VARIABLES
    cacheEnabled, \* nodeIdentifier.cacheEnabled
    cache,        \* nodeIdentifier.cache: key -> timestamped Info
    now,          \* the clock of the cache, in minutes
    ipc,          \* per caller: position in IdentifyNode
    providerID,   \* per caller: node.Spec.ProviderID of the call
    instanceID,   \* per caller: the local variable instanceID
    result,       \* per caller: the (info, err) pair built or returned
    cloudCalls,   \* ghost, per caller: DescribeInstances requests of the call
    cacheGets,    \* ghost, per caller: keys passed to GetByKey by the call
    cachePuts,    \* ghost, per caller: number of cache.Add of the call
    requested,    \* ghost, per caller: InstanceIds of the DescribeInstances request
    respShape,    \* ghost, per caller: instances per reservation of the response
    described,    \* ghost, per caller: the instance getInstance returned
    cacheErrs,    \* ghost, per caller: cache operations of the call that failed
    describes,    \* ghost: DescribeInstances requests so far
    gotAt,        \* ghost, per caller: the time of the call's GetByKey, -1 if none
    firstPut,     \* ghost: key -> the time of the first cache.Add under the key
    lookedAt,     \* ghost, per caller: the time of the DescribeInstances whose Info
                  \* the call is about to put, -1 otherwise
    observed,     \* ghost: key -> the time of the DescribeInstances behind the entry
    calls,        \* ghost: calls started so far
    workload      \* environment: which nodes are identified, what EC2 answers

identVars == <<cacheEnabled, cache, now, ipc, providerID, instanceID, result,
               cloudCalls, cacheGets, cachePuts, requested, respShape, described,
               cacheErrs, describes, gotAt, firstPut, lookedAt, observed, calls,
               workload>>

vars == <<bootVars, identVars>>

\* ---- uname strings ----
x86_64   == <<"x","8","6","_","6","4">>
amd64    == <<"a","m","d","6","4">>
i586_64  == <<"i","5","8","6","_","6","4">>
aarch64  == <<"a","a","r","c","h","6","4">>
arm64    == <<"a","r","m","6","4">>
armv7l   == <<"a","r","m","v","7","l">>
i686     == <<"i","6","8","6">>
riscv64  == <<"r","i","s","c","v","6","4">>

\* values `uname -m` is drawn from
UnameValues == {x86_64, amd64, i586_64, aarch64, arm64, armv7l, i686, riscv64, <<>>}

\* bash `case` pattern matching: * matches any string, ? any one character
RECURSIVE GlobMatch(_, _)
GlobMatch(p, s) ==
    IF p = <<>> THEN s = <<>>
    ELSE IF Head(p) = "*"
         THEN GlobMatch(Tail(p), s) \/ (s # <<>> /\ GlobMatch(p, Tail(s)))
         ELSE /\ s # <<>>
              /\ (Head(p) = "?" \/ Head(p) = Head(s))
              /\ GlobMatch(Tail(p), Tail(s))

PatternsAmd64 == { x86_64 \o <<"*">>,
                   <<"i","?","8","6","_","6","4","*">>,
                   amd64 \o <<"*">> }
PatternsArm64 == { aarch64 \o <<"*">>, arm64 \o <<"*">> }

\* ---- the artifact table (script lines 15-18) ----
NODEUP_URL_AMD64 ==
    << "https://artifacts.k8s.io/binaries/kops/1.21.0-alpha.1/linux/amd64/nodeup", ",",
       "https://github.com/kubernetes/kops/releases/download/v1.21.0-alpha.1/nodeup-linux-amd64" >>
NODEUP_HASH_AMD64 == "585fbda0f0a43184656b4bfc0cc5f0c0b85612faf43b8816acca1f99d422c924"
NODEUP_URL_ARM64 ==
    << "https://artifacts.k8s.io/binaries/kops/1.21.0-alpha.1/linux/arm64/nodeup", ",",
       "https://github.com/kubernetes/kops/releases/download/v1.21.0-alpha.1/nodeup-linux-arm64" >>
NODEUP_HASH_ARM64 == "7603675379699105a9b9915ff97718ea99b1bbb01a4c184e2f827c8a96e8e865"

\* the branch of `case "$(uname -m)"` taken for a
ArchCaseDefaultAmd64(a) ==
    IF \E p \in PatternsArm64 : GlobMatch(p, a) THEN "arm64" ELSE "amd64"
ArchCaseAlwaysArm64(a) ==
    IF \E p \in PatternsAmd64 \cup PatternsArm64 : GlobMatch(p, a) THEN "arm64"
    ELSE "unsupported"
ArchCase(a) ==
    IF \E p \in PatternsAmd64 : GlobMatch(p, a) THEN "amd64"
    ELSE IF \E p \in PatternsArm64 : GlobMatch(p, a) THEN "arm64"
    ELSE "unsupported"

\* split-commas followed by bash word splitting into the `urls` array
RECURSIVE SplitCommas(_)
SplitCommas(s) ==
    IF s = <<>> THEN <<>>
    ELSE IF Head(s) = "," THEN SplitCommas(Tail(s))
    ELSE <<Head(s)>> \o SplitCommas(Tail(s))

\* ---- files and checksums ----
NoFile       == "no-file"
NodeupAmd64  == "nodeup-linux-amd64 bytes"
NodeupArm64  == "nodeup-linux-arm64 bytes"
Garbage      == "other bytes"
Contents     == {NodeupAmd64, NodeupArm64, Garbage}

\* sha256sum of a file with content c
Sha256(c) ==
    CASE c = NodeupAmd64 -> NODEUP_HASH_AMD64
      [] c = NodeupArm64 -> NODEUP_HASH_ARM64
      [] c = Garbage     -> "e3b0c44298fc1c149afbf4c8996fb92427ae41e4649b934ca495991b7852b855"

\* actual=$(sha256sum ${file} | awk '{ print $1 }') || true
ActualHash(f) == IF f = NoFile THEN "" ELSE Sha256(f)

\* validate-hash: exit status 0 (TRUE) iff the digest equals `expected`
ValidateHashSkipped(f, expected) == TRUE
ValidateHashNever(f, expected) == FALSE
ValidateHash(f, expected) == ActualHash(f) = expected

\* rm -f "${file}"
RmKeeps(f) == f
Rm(f) == NoFile

\* ---- the transport commands ----
CommandsTwo ==
    << "curl -f --compressed -Lo",
       "wget --compression=auto -O" >>
Commands ==
    << "curl -f --compressed -Lo  --connect-timeout 20 --retry 6 --retry-delay 10",
       "wget --compression=auto -O  --connect-timeout=20 --tries=6 --wait=10",
       "curl -f -Lo  --connect-timeout 20 --retry 6 --retry-delay 10",
       "wget -O  --connect-timeout=20 --tries=6 --wait=10" >>

Failed == "exit-nonzero"
NoCombo == <<0, 0>>
MirrorIdx == 1..Len(SplitCommas(NODEUP_URL_AMD64))
Combos == MirrorIdx \X (1..Len(Commands))
Behaviours == {"fail", "wrong", "correct", "any"}

\* The outcomes of one transport command: it exits nonzero, or it exits zero
\* having written some content to the destination.
OutcomesOf(b, hash) ==
    CASE b = "fail"    -> {Failed}
      [] b = "wrong"   -> {c \in Contents : Sha256(c) # hash}
      [] b = "correct" -> {c \in Contents : Sha256(c) = hash}
      [] b = "any"     -> {Failed} \cup Contents

TransportOutcomes(u, c) ==
    IF <<u, c>> = good THEN OutcomesOf("correct", NODEUP_HASH)
    ELSE OutcomesOf(allowed[u], NODEUP_HASH)

\* where the two nested `for` loops go after the iteration (u, c):
\* the next command, else the first command of the next url, else past the end
NextComboSameUrl(u, c, nUrls) ==
    IF c < Len(Commands) THEN <<u, c + 1>> ELSE <<nUrls + 1, 1>>
NextComboRepeat(u, c, nUrls) ==
    IF c < Len(Commands) THEN <<u, c + 1>> ELSE <<u, 1>>
NextCombo(u, c, nUrls) ==
    IF c < Len(Commands) THEN <<u, c + 1>> ELSE <<u + 1, 1>>

Bump(n, max) == IF n < max THEN n + 1 ELSE n

BootInit ==
    /\ arch \in UnameValues
    /\ bpc = "download-release"
    /\ NODEUP_URL = <<>>
    /\ NODEUP_HASH = ""
    /\ file0 \in {NoFile} \cup Contents
    /\ file = file0
    /\ fileExec = FALSE
    /\ urlIdx = 0
    /\ cmdIdx = 0
    /\ exitStatus = -1
    /\ agentRuns = 0
    /\ nodeupProc = "none"
    /\ attempts = 0
    /\ sleeps = 0
    /\ last = "none"
    /\ allowed \in [MirrorIdx -> Behaviours]
    /\ good = NoCombo
    \* the identifier is at rest
    /\ workload = "provider ids"
    /\ cacheEnabled = FALSE
    /\ cache = [k \in {} |-> 0]
    /\ now = 0
    /\ ipc = [c \in 1..NumCallers |-> "idle"]
    /\ providerID = [c \in 1..NumCallers |-> <<>>]
    /\ instanceID = [c \in 1..NumCallers |-> <<>>]
    /\ result = [c \in 1..NumCallers |-> [err |-> <<>>, info |-> <<>>]]
    /\ cloudCalls = [c \in 1..NumCallers |-> 0]
    /\ cacheGets = [c \in 1..NumCallers |-> <<>>]
    /\ cachePuts = [c \in 1..NumCallers |-> 0]
    /\ requested = [c \in 1..NumCallers |-> <<>>]
    /\ respShape = [c \in 1..NumCallers |-> <<>>]
    /\ described = [c \in 1..NumCallers |-> <<>>]
    /\ cacheErrs = [c \in 1..NumCallers |-> {}]
    /\ describes = 0
    /\ gotAt = [c \in 1..NumCallers |-> -1]
    /\ firstPut = [k \in {} |-> 0]
    /\ lookedAt = [c \in 1..NumCallers |-> -1]
    /\ observed = [k \in {} |-> 0]
    /\ calls = 0

\* download-release, lines 102-115: select the artifact or exit 1
DownloadRelease ==
    /\ bpc = "download-release"
    /\ LET k == ArchCase(arch) IN
         CASE k = "amd64" ->
                /\ NODEUP_URL' = NODEUP_URL_AMD64
                /\ NODEUP_HASH' = NODEUP_HASH_AMD64
                /\ bpc' = "download-or-bust"
                /\ UNCHANGED exitStatus
           [] k = "arm64" ->
                /\ NODEUP_URL' = NODEUP_URL_ARM64
                /\ NODEUP_HASH' = NODEUP_HASH_ARM64
                /\ bpc' = "download-or-bust"
                /\ UNCHANGED exitStatus
           [] OTHER ->
                /\ bpc' = "exited"
                /\ exitStatus' = 1
                /\ UNCHANGED <<NODEUP_URL, NODEUP_HASH>>
    /\ UNCHANGED <<arch, file, fileExec, urlIdx, cmdIdx, agentRuns, nodeupProc, attempts,
                   sleeps, last, file0, allowed, good>>
    /\ UNCHANGED identVars

\* download-or-bust, lines 48-54: keep a valid file, remove an invalid one
DownloadOrBustExisting ==
    /\ bpc = "download-or-bust"
    /\ IF file # NoFile
       THEN IF ~ValidateHash(file, NODEUP_HASH)
            THEN /\ file' = Rm(file)
                 /\ bpc' = "loop"
                 /\ urlIdx' = 1
                 /\ cmdIdx' = 1
            ELSE /\ bpc' = "returned"
                 /\ UNCHANGED <<file, urlIdx, cmdIdx>>
       ELSE /\ bpc' = "loop"
            /\ urlIdx' = 1
            /\ cmdIdx' = 1
            /\ UNCHANGED file
    /\ UNCHANGED <<arch, NODEUP_URL, NODEUP_HASH, fileExec, exitStatus, agentRuns, nodeupProc,
                   attempts, sleeps, last, file0, allowed, good>>
    /\ UNCHANGED identVars

\* lines 64-77: one iteration of the `for cmd` loop with transport outcome o
DownloadOrBustAttempt(o) ==
    /\ bpc = "loop"
    /\ o \in TransportOutcomes(urlIdx, cmdIdx)
    /\ attempts' = Bump(attempts, MaxAttempts)
    /\ last' = o
    /\ LET urls == SplitCommas(NODEUP_URL)
           nxt  == NextCombo(urlIdx, cmdIdx, Len(urls))
           advance == /\ urlIdx' = nxt[1]
                      /\ cmdIdx' = nxt[2]
                      /\ bpc' = IF nxt[1] > Len(urls) THEN "sleep" ELSE "loop"
       IN IF o = Failed
          THEN \* `continue`: the command may have left a truncated file behind
               /\ \E f \in {file, Garbage} : file' = f
               /\ advance
          ELSE IF ~ValidateHash(o, NODEUP_HASH)
               THEN /\ file' = Rm(o)
                    /\ advance
               ELSE /\ file' = o
                    /\ bpc' = "returned"
                    /\ UNCHANGED <<urlIdx, cmdIdx>>
    /\ UNCHANGED <<arch, NODEUP_URL, NODEUP_HASH, fileExec, exitStatus, agentRuns, nodeupProc,
                   sleeps, file0, allowed, good>>
    /\ UNCHANGED identVars

\* lines 80-81 and back to line 57: sleep 60, start a new pass
DownloadOrBustSleep ==
    /\ bpc = "sleep"
    /\ sleeps' = Bump(sleeps, MaxSleeps)
    /\ bpc' = "loop"
    /\ urlIdx' = 1
    /\ cmdIdx' = 1
    /\ UNCHANGED <<arch, NODEUP_URL, NODEUP_HASH, file, fileExec, exitStatus,
                   agentRuns, nodeupProc, attempts, last, file0, allowed, good>>
    /\ UNCHANGED identVars

\* line 120: chmod +x nodeup
Chmod ==
    /\ bpc = "returned"
    /\ fileExec' = TRUE
    /\ bpc' = "chmodded"
    /\ UNCHANGED <<arch, NODEUP_URL, NODEUP_HASH, file, urlIdx, cmdIdx, exitStatus,
                   agentRuns, nodeupProc, attempts, sleeps, last, file0, allowed, good>>
    /\ UNCHANGED identVars

\* line 124: ( cd ${INSTALL_DIR}/bin; ./nodeup --install-systemd-unit ... )
RunNodeup ==
    /\ bpc = "chmodded"
    /\ agentRuns' = agentRuns + 1
    /\ nodeupProc' = "running"
    /\ bpc' = "nodeup"
    /\ UNCHANGED <<arch, NODEUP_URL, NODEUP_HASH, file, fileExec, urlIdx, cmdIdx,
                   exitStatus, attempts, sleeps, last, file0, allowed, good>>
    /\ UNCHANGED identVars

\* the ./nodeup process ends with status rc
NodeupEnds(rc) ==
    /\ nodeupProc = "running"
    /\ nodeupProc' = IF rc = 0 THEN "exit 0" ELSE "exit 1"
    /\ UNCHANGED <<arch, bpc, NODEUP_URL, NODEUP_HASH, file, fileExec, urlIdx, cmdIdx,
                   exitStatus, agentRuns, attempts, sleeps, last, file0, allowed, good>>
    /\ UNCHANGED identVars

\* the subshell of line 124 has waited for ./nodeup and ends with its status;
\* under errexit a nonzero status ends the script with it, otherwise line 139
\* is reached and the script exits 0
NodeupExits ==
    /\ bpc = "nodeup"
    /\ nodeupProc \in {"exit 0", "exit 1"}
    /\ bpc' = "exited"
    /\ exitStatus' = IF nodeupProc = "exit 0" THEN 0 ELSE 1
    /\ UNCHANGED <<arch, NODEUP_URL, NODEUP_HASH, file, fileExec, urlIdx, cmdIdx,
                   agentRuns, nodeupProc, attempts, sleeps, last, file0, allowed, good>>
    /\ UNCHANGED identVars

\* environment: from now on the pair c delivers the right bytes every time
Stabilize(c) ==
    /\ bpc \in {"download-or-bust", "loop", "sleep"}
    /\ good = NoCombo
    /\ good' = c
    /\ UNCHANGED <<arch, bpc, NODEUP_URL, NODEUP_HASH, file, fileExec, urlIdx, cmdIdx,
                   exitStatus, agentRuns, nodeupProc, attempts, sleeps, last, file0, allowed>>
    /\ UNCHANGED identVars

ScriptStep ==
    \/ DownloadRelease
    \/ DownloadOrBustExisting
    \/ \E o \in {Failed} \cup Contents : DownloadOrBustAttempt(o)
    \/ DownloadOrBustSleep
    \/ Chmod
    \/ RunNodeup
    \/ NodeupExits

BootNext ==
    \/ ScriptStep
    \/ \E rc \in {0, 1} : NodeupEnds(rc)
    \/ \E c \in Combos : Stabilize(c)

(***************************************************************************)
(* Claims about nodeup.sh                                                  *)
(***************************************************************************)
ValidFile(f) == f \in Contents /\ Sha256(f) = NODEUP_HASH
InFetch == bpc \in {"download-or-bust", "loop", "sleep"}
NumCombos == Cardinality(Combos)
Pos(u, c) == (u - 1) * Len(Commands) + c

\* C1: download-or-bust returns only in a state where the destination file
\* exists and its checksum equals the expected checksum, whatever the initial
\* file and whatever the transport commands did.
C1_ReturnOnlyWithValidFile ==
    bpc = "returned" => (file # NoFile /\ ActualHash(file) = NODEUP_HASH)

\* C1 witness: a return after a corrupt initial file and at least one failed
\* command and one completed transfer
C1_Witness ==
    /\ bpc = "returned"
    /\ file0 # NoFile /\ ~ValidFile(file0)
    /\ attempts >= 3
    /\ sleeps >= 1

\* the scenario of C2: two mirrors, the first always completing with wrong
\* bytes, the second always completing with the right bytes, no initial file
C2_Scenario ==
    /\ NODEUP_HASH # ""
    /\ Len(SplitCommas(NODEUP_URL)) = 2
    /\ file0 = NoFile
    /\ allowed = (1 :> "wrong" @@ 2 :> "correct")
    /\ good = NoCombo

\* C2 as stated: in the scenario the fetch returns with a file of checksum H
\* after exactly 2 transport attempts.
C2_Original ==
    (C2_Scenario /\ bpc = "returned") => (ValidFile(file) /\ attempts = 2)

\* C2 (amended): in the scenario the fetch returns with a file of checksum H
\* after exactly 5 transport attempts: each of the four commands once on u1,
\* then the first command on u2; before that it never sleeps.
C2_FiveAttempts ==
    /\ (C2_Scenario /\ bpc = "returned") =>
          (ValidFile(file) /\ attempts = 5 /\ sleeps = 0)
    /\ (C2_Scenario /\ InFetch) => (bpc # "sleep" /\ attempts <= 4)

C2_Witness == C2_Scenario /\ bpc = "returned"

\* C3: if the destination file exists with the expected checksum when the
\* fetch is invoked, the fetch returns with zero transport attempts, no sleep
\* and the file unchanged; the retry loop is never entered.
C3_ShortCircuit ==
    (NODEUP_HASH # "" /\ ValidFile(file0)) =>
        /\ attempts = 0
        /\ sleeps = 0
        /\ file = file0
        /\ bpc \notin {"loop", "sleep"}
        /\ last = "none"

C3_Witness == ValidFile(file0) /\ bpc = "returned"

\* C4: if the destination file exists with another checksum when the fetch is
\* invoked, it is deleted before any transport attempt, and when the first
\* attempt (first mirror, first command) delivers the right bytes the fetch
\* returns after exactly that one attempt.
C4_CorruptFileDeletedFirst ==
    /\ [](  (NODEUP_HASH # "" /\ file0 # NoFile /\ ~ValidFile(file0)) =>
              /\ (bpc = "loop" /\ attempts = 0) =>
                     (file = NoFile /\ urlIdx = 1 /\ cmdIdx = 1)
              /\ attempts > 0 => bpc # "download-or-bust" )
    /\ [][ (/\ file0 # NoFile /\ ~ValidFile(file0)
            /\ bpc = "loop" /\ attempts = 0
            /\ attempts' = 1 /\ ValidFile(last'))
           => (bpc' = "returned" /\ file' = last') ]_bootVars
    /\ [][ bpc \notin {"loop"} => attempts' = attempts ]_bootVars

C4_Witness ==
    /\ file0 # NoFile /\ ~ValidFile(file0)
    /\ bpc = "returned" /\ attempts = 1

\* some (url, cmd) pair delivers the right bytes every time it is run
Reliable ==
    /\ InFetch
    /\ \/ good # NoCombo
       \/ \E u \in MirrorIdx : allowed[u] = "correct"
DeliveredCorrect == ValidFile(last)

\* C5 as stated: a reliable pair leads to a return, and the fetch returns
\* only if some transport attempt delivered the right bytes.
C5_Original ==
    /\ Reliable ~> (bpc = "returned")
    /\ [](bpc = "returned" => DeliveredCorrect)

\* C5 (amended): once some pair is reliable the fetch eventually returns;
\* and the fetch returns only if the destination file already matched when
\* it was invoked or some transport attempt delivered the right bytes.
C5_Liveness ==
    /\ Reliable ~> (bpc = "returned")
    /\ [](bpc = "returned" =>
            (DeliveredCorrect \/ (ValidFile(file0) /\ attempts = 0)))

\* C5 witness: a return after a full failed pass, thanks to a pair that became
\* reliable later
C5_Witness ==
    /\ bpc = "returned" /\ sleeps >= 1 /\ good # NoCombo
    /\ \A u \in MirrorIdx : allowed[u] # "correct"

\* C6: within a pass the attempts go through the (url, command) pairs in
\* lexicographic order, each once; a failed command or a checksum mismatch
\* (the downloaded file then being deleted) moves to the next pair; the sleep
\* happens only after the last pair has failed, and is followed by a new pass
\* from the first pair; a sleeping fetch can always start another pass.
C6_PassStructure ==
    /\ [](bpc = "loop" => <<urlIdx, cmdIdx>> \in Combos)
    /\ [](bpc = "sleep" => ENABLED DownloadOrBustSleep)
    /\ [][ (bpc = "download-or-bust" /\ bpc' = "loop")
             => (urlIdx' = 1 /\ cmdIdx' = 1) ]_bootVars
    /\ [][ (bpc = "loop" /\ good' = good) =>
             \/ /\ ValidFile(last')
                /\ bpc' = "returned"
                /\ file' = last'
             \/ /\ ~ValidFile(last')
                /\ last' \in Contents => file' = NoFile
                /\ IF Pos(urlIdx, cmdIdx) < NumCombos
                   THEN /\ bpc' = "loop"
                        /\ <<urlIdx', cmdIdx'>> \in Combos
                        /\ Pos(urlIdx', cmdIdx') = Pos(urlIdx, cmdIdx) + 1
                   ELSE bpc' = "sleep" ]_bootVars
    /\ [][ (bpc = "sleep" /\ good' = good) =>
             (bpc' = "loop" /\ urlIdx' = 1 /\ cmdIdx' = 1
              /\ sleeps' = Bump(sleeps, MaxSleeps)) ]_bootVars
    /\ [][ sleeps' # sleeps => bpc = "sleep" ]_bootVars

\* C6 witness: a second pass under way after a wrong-bytes attempt
C6_Witness ==
    /\ bpc = "loop" /\ sleeps = 1 /\ urlIdx = 2 /\ cmdIdx = 3
    /\ last = Garbage /\ file = NoFile

ArchUnsupported(a) == \A p \in PatternsAmd64 \cup PatternsArm64 : ~GlobMatch(p, a)

\* C7: on a host whose architecture matches none of the enumerated patterns
\* the script exits with a nonzero status, without any transport attempt,
\* sleep or start of the agent.
C7_UnsupportedArchFailsFast ==
    (ArchUnsupported(arch) /\ bpc # "download-release") =>
        /\ bpc = "exited"
        /\ exitStatus > 0
        /\ attempts = 0
        /\ sleeps = 0
        /\ agentRuns = 0
        /\ file = file0

C7_Witness == arch = riscv64 /\ bpc = "exited"

(***************************************************************************)
(* Part II.  pkg/nodeidentity/aws/identify.go                              *)
(***************************************************************************)

Callers == 1..NumCallers

\* ---- Go strings as sequences of characters ----
HasPrefix(s, prefix) ==
    Len(s) >= Len(prefix) /\ SubSeq(s, 1, Len(prefix)) = prefix
TrimPrefix(s, prefix) ==
    IF HasPrefix(s, prefix) THEN SubSeq(s, Len(prefix) + 1, Len(s)) ELSE s
\* strings.Split(s, sep) for a one-character sep: n separators give n+1 pieces
RECURSIVE Split(_, _)
Split(s, sep) ==
    IF s = <<>> THEN << <<>> >>
    ELSE LET rest == Split(Tail(s), sep) IN
         IF Head(s) = sep THEN << <<>> >> \o rest
         ELSE << <<Head(s)>> \o rest[1] >> \o Tail(rest)
RECURSIVE Join(_, _)
Join(segs, sep) ==
    IF segs = <<>> THEN <<>>
    ELSE IF Len(segs) = 1 THEN segs[1]
    ELSE segs[1] \o <<sep>> \o Join(Tail(segs), sep)

Aws      == <<"a","w","s",":","/","/">>
AwsUpper == <<"A","W","S",":","/","/">>
AwsShort == <<"a","w","s",":","/">>
Gce      == <<"g","c","e",":","/","/">>
SegE == <<>>
SegZ == <<"z">>
SegI == <<"i">>
SegJ == <<"j">>

\* provider ids the callers pass: a prefix followed by 0..5 segments
Prefixes == { <<>>, Aws, AwsUpper, AwsShort, Gce, Aws \o Aws }
SegLists == { <<>>, <<SegI>>, <<SegZ, SegI>>, <<SegE, SegI>>,
              <<SegE, SegZ, SegI>>, <<SegE, SegZ, SegJ>>, <<SegZ, SegZ, SegJ>>,
              <<SegE, SegZ, SegE>>, <<SegE, SegZ, SegI, SegJ>>,
              <<SegE, SegE, SegZ, SegI>> }
ProviderIDs == { pre \o Join(segs, "/") : pre \in Prefixes, segs \in SegLists }

\* ---- errors returned by IdentifyNode ----
\* (an error is the sequence of the parts of its message; nil is empty)
ErrNotSet        == <<"providerID was not set for node">>
ErrNotRecognized == <<"providerID not recognized for node">>
ErrDescribe      == <<"error from ec2 DescribeInstances request">>
ErrMissing       == <<"missing instance id">>
ErrMultiple      == <<"found multiple instances with instance id">>
ErrState(st)     == <<"found instance, but state is", st>>
NoErr            == <<>>

\* lines 96-110: the validation of the provider id and the instance id taken
\* from it
ParseProviderIDAtLeast3(pid) ==
    IF pid = <<>> THEN [err |-> ErrNotSet, instanceID |-> <<>>]
    ELSE IF ~HasPrefix(pid, Aws) THEN [err |-> ErrNotRecognized, instanceID |-> <<>>]
    ELSE LET tokens == Split(TrimPrefix(pid, Aws), "/") IN
         IF Len(tokens) < 3 THEN [err |-> ErrNotRecognized, instanceID |-> <<>>]
         ELSE [err |-> NoErr, instanceID |-> tokens[3]]
ParseProviderIDZone(pid) ==
    IF pid = <<>> THEN [err |-> ErrNotSet, instanceID |-> <<>>]
    ELSE IF ~HasPrefix(pid, Aws) THEN [err |-> ErrNotRecognized, instanceID |-> <<>>]
    ELSE LET tokens == Split(TrimPrefix(pid, Aws), "/") IN
         IF Len(tokens) # 3 THEN [err |-> ErrNotRecognized, instanceID |-> <<>>]
         ELSE [err |-> NoErr, instanceID |-> tokens[2]]
ParseProviderID(pid) ==
    IF pid = <<>> THEN [err |-> ErrNotSet, instanceID |-> <<>>]
    ELSE IF ~HasPrefix(pid, Aws) THEN [err |-> ErrNotRecognized, instanceID |-> <<>>]
    ELSE LET tokens == Split(TrimPrefix(pid, Aws), "/") IN
         IF Len(tokens) # 3 THEN [err |-> ErrNotRecognized, instanceID |-> <<>>]
         ELSE [err |-> NoErr, instanceID |-> tokens[3]]   \* Go: tokens[2]

\* ---- EC2 instances and DescribeInstances responses ----
ClusterAutoscalerNodeTemplateLabel == <<"k8s.io/cluster-autoscaler/node-template/label/">>
InstanceStateNameRunning == "running"
NilState == "State == nil"
NilName  == "State.Name == nil"
NilLifecycle == "InstanceLifecycle == nil"

TemplateTag == [Key |-> ClusterAutoscalerNodeTemplateLabel \o <<"foo">>, Value |-> "bar"]
OtherTag    == [Key |-> <<"Name">>, Value |-> "node-1"]

RunningPlain == [State |-> "running", InstanceLifecycle |-> NilLifecycle, Tags |-> <<>>]
RunningSpot  == [State |-> "running", InstanceLifecycle |-> "spot",
                 Tags |-> <<TemplateTag, OtherTag>>]
Stopped      == [State |-> "stopped", InstanceLifecycle |-> NilLifecycle,
                 Tags |-> <<TemplateTag>>]
NoState      == [State |-> NilState, InstanceLifecycle |-> NilLifecycle, Tags |-> <<>>]
NoStateName  == [State |-> NilName, InstanceLifecycle |-> "spot",
                 Tags |-> <<TemplateTag>>]
Pending      == [State |-> "pending", InstanceLifecycle |-> "spot",
                 Tags |-> <<TemplateTag, OtherTag>>]
\* tags that write a label twice, write the lifecycle label, have the bare
\* prefix as key, or have the prefix elsewhere than at the start
FooBaz       == [Key |-> ClusterAutoscalerNodeTemplateLabel \o <<"foo">>, Value |-> "baz"]
WorkerTag    == [Key |-> ClusterAutoscalerNodeTemplateLabel
                            \o <<"node-role.kubernetes.io/", "spot", "-worker">>,
                 Value |-> "false"]
BareTag      == [Key |-> ClusterAutoscalerNodeTemplateLabel, Value |-> "bare"]
InnerTag     == [Key |-> <<"x/">> \o ClusterAutoscalerNodeTemplateLabel \o <<"foo">>,
                 Value |-> "inner"]
RunningTwice == [State |-> "running", InstanceLifecycle |-> "spot",
                 Tags |-> <<TemplateTag, InnerTag, FooBaz, WorkerTag, BareTag>>]
RunningBaz   == [State |-> "running", InstanceLifecycle |-> NilLifecycle,
                 Tags |-> <<FooBaz, OtherTag, TemplateTag>>]
Instances    == {RunningPlain, RunningSpot, Stopped, NoState, NoStateName, Pending,
                 RunningTwice, RunningBaz}

\* the most reservations in a response, and instances in a reservation
MaxReservations == 2
MaxPerReservation == 2
SeqsUpTo(S, n) == UNION { [1..k -> S] : k \in 0..n }
Resp(rs) == [err |-> FALSE, Reservations |-> rs]
\* what DescribeInstances returns: an error, or a response with Reservations;
\* the responses are those with one instance of any kind, and those with any
\* number of running instances in any arrangement
ArrangedInstances == {RunningSpot}
Reservations == SeqsUpTo(ArrangedInstances, MaxPerReservation)
Responses ==
    { Resp(rs) : rs \in SeqsUpTo(Reservations, MaxReservations) }
    \cup { Resp(<< <<inst>> >>) : inst \in Instances }
ApiError == [err |-> TRUE, Reservations |-> <<>>]

\* lines 166-185: getInstance on what DescribeInstances returned
getInstance(resp) ==
    IF resp.err THEN [err |-> ErrDescribe, instance |-> <<>>]
    ELSE IF Len(resp.Reservations) <= 0 \/ Len(resp.Reservations[1]) <= 0
         THEN [err |-> ErrMissing, instance |-> <<>>]
    ELSE IF Len(resp.Reservations[1]) > 1
         THEN [err |-> ErrMultiple, instance |-> <<>>]
    ELSE [err |-> NoErr, instance |-> <<resp.Reservations[1][1]>>]

\* lines 130-133
InstanceStateNilRunning(instance) ==
    IF instance.State # NilState
    THEN (IF instance.State = NilName THEN "" ELSE instance.State)
    ELSE "running"
InstanceState(instance) ==
    IF instance.State # NilState
    THEN (IF instance.State = NilName THEN "" ELSE instance.State)
    ELSE "?"

\* ---- labels: map[string]string ----
EmptyMap == [k \in {} |-> ""]
MapPut(m, k, v) == [x \in (DOMAIN m) \cup {k} |-> IF x = k THEN v ELSE m[x]]

\* line 140
LifecycleLabel(lifecycle) == <<"node-role.kubernetes.io/", lifecycle, "-worker">>

\* lines 148-152: the loop over instance.Tags
RECURSIVE ApplyTagsFirstWins(_, _)
ApplyTagsFirstWins(labels, tags) ==
    IF tags = <<>> THEN labels
    ELSE LET tag == Head(tags)
             key == TrimPrefix(tag.Key, ClusterAutoscalerNodeTemplateLabel) IN
         ApplyTagsFirstWins(
             IF HasPrefix(tag.Key, ClusterAutoscalerNodeTemplateLabel)
                /\ key \notin DOMAIN labels
             THEN MapPut(labels, key, tag.Value)
             ELSE labels,
             Tail(tags))
RECURSIVE ApplyTags(_, _)
ApplyTags(labels, tags) ==
    IF tags = <<>> THEN labels
    ELSE LET tag == Head(tags) IN
         ApplyTags(IF HasPrefix(tag.Key, ClusterAutoscalerNodeTemplateLabel)
                   THEN MapPut(labels,
                               TrimPrefix(tag.Key, ClusterAutoscalerNodeTemplateLabel),
                               tag.Value)
                   ELSE labels,
                   Tail(tags))

\* lines 138-152: the Info built for a running instance
BuildInfo(id, instance) ==
    LET labels == IF instance.InstanceLifecycle # NilLifecycle
                  THEN MapPut(EmptyMap, LifecycleLabel(instance.InstanceLifecycle), "true")
                  ELSE EmptyMap
    IN [InstanceID |-> id, Labels |-> ApplyTags(labels, instance.Tags)]

\* ---- the expiring cache ----
\* The expiration time of nodeidentity.Info cache, in minutes.
cacheTTLTwoHours == 2 * 60
cacheTTL == 60

stringKeyFuncConstant(obj) == <<"key">>
stringKeyFunc(obj) == obj.InstanceID

\* an entry is expired once its age exceeds the TTL
IsExpired(entry, t) == t - entry.Timestamp > cacheTTL

\* cache.GetByKey: an absent or expired entry is not found; an expired one is
\* dropped from the store
GetByKey(store, key, t) ==
    IF key \in DOMAIN store /\ ~IsExpired(store[key], t)
    THEN [obj |-> <<store[key].Obj>>, exists |-> TRUE, store |-> store]
    ELSE [obj |-> <<>>, exists |-> FALSE,
          store |-> [k \in (DOMAIN store) \ {key} |-> store[k]]]

\* cache.Add: insert or overwrite under the object's key, stamped with t
CacheAdd(store, obj, t) ==
    LET key == stringKeyFunc(obj) IN
    [k \in (DOMAIN store) \cup {key} |->
        IF k = key THEN [Obj |-> obj, Timestamp |-> t] ELSE store[k]]

NoResult == [err |-> NoErr, info |-> <<>>]


\* The workloads: the provider ids of the nodes handed to IdentifyNode, the
\* answers of the EC2 backend and the callers at work.  One goes through the
\* provider ids and one through the answers, a call at a time; one has
\* concurrent calls for nodes of two instance ids, and one has concurrent
\* calls for one node while the clock advances.
Workloads == {"provider ids", "responses", "two nodes", "racing calls"}
NodeI == Aws \o Join(<<SegE, SegZ, SegI>>, "/")
NodeJ == Aws \o Join(<<SegE, SegZ, SegJ>>, "/")
TwoNodes == {NodeI, NodeJ, Aws \o Join(<<SegZ, SegI>>, "/")}
OneNode == {NodeI}
SpotOnly == {Resp(<< <<RunningSpot>> >>)}
AllAnswers == Responses \cup {ApiError}
FewAnswers == {Resp(<< <<RunningPlain>> >>), Resp(<< <<RunningSpot>> >>),
               Resp(<< <<Stopped>> >>)}
\* the provider ids of the nodes handed to IdentifyNode
Nodes ==
    CASE workload = "provider ids" -> ProviderIDs
      [] workload = "responses"    -> OneNode
      [] workload = "two nodes"    -> TwoNodes
      [] workload = "racing calls" -> OneNode
\* the goroutines calling IdentifyNode
ActiveCallers ==
    IF workload \in {"two nodes", "racing calls"} THEN Callers ELSE {1}
\* whether a cache operation may report an error: the cache store fails in
\* the workloads that make one call at a time
CacheFaults ==
    IF workload \in {"two nodes", "racing calls"} THEN {FALSE} ELSE BOOLEAN
\* how the clock advances between steps: by half a TTL or a minute more where
\* one node is identified again and again by one caller, past the TTL where
\* the provider ids vary or the calls race, and not at all while two nodes
\* are identified
TickSteps ==
    CASE workload = "provider ids" -> {cacheTTL + 1}
      [] workload = "responses"    -> {cacheTTL \div 2, cacheTTL \div 2 + 1}
      [] workload = "two nodes"    -> {}
      [] workload = "racing calls" -> {cacheTTL + 1}
\* what DescribeInstances may return
Cloud ==
    CASE workload = "provider ids" -> SpotOnly
      [] workload = "responses"    -> AllAnswers
      [] workload = "two nodes"    -> FewAnswers
      [] workload = "racing calls" -> FewAnswers

IdentInit ==
    /\ workload \in Workloads
    /\ cacheEnabled \in BOOLEAN
    /\ cache = [k \in {} |-> 0]
    /\ now = 0
    /\ ipc = [c \in Callers |-> "idle"]
    /\ providerID = [c \in Callers |-> <<>>]
    /\ instanceID = [c \in Callers |-> <<>>]
    /\ result = [c \in Callers |-> NoResult]
    /\ cloudCalls = [c \in Callers |-> 0]
    /\ cacheGets = [c \in Callers |-> <<>>]
    /\ cachePuts = [c \in Callers |-> 0]
    /\ requested = [c \in Callers |-> <<>>]
    /\ respShape = [c \in Callers |-> <<>>]
    /\ described = [c \in Callers |-> <<>>]
    /\ cacheErrs = [c \in Callers |-> {}]
    /\ describes = 0
    /\ gotAt = [c \in Callers |-> -1]
    /\ firstPut = [k \in {} |-> 0]
    /\ lookedAt = [c \in Callers |-> -1]
    /\ observed = [k \in {} |-> 0]
    /\ calls = 0
    \* the script is at rest
    /\ arch = x86_64
    /\ bpc = "download-release"
    /\ NODEUP_URL = <<>>
    /\ NODEUP_HASH = ""
    /\ file0 = NoFile
    /\ file = NoFile
    /\ fileExec = FALSE
    /\ urlIdx = 0
    /\ cmdIdx = 0
    /\ exitStatus = -1
    /\ agentRuns = 0
    /\ nodeupProc = "none"
    /\ attempts = 0
    /\ sleeps = 0
    /\ last = "none"
    /\ allowed = [u \in MirrorIdx |-> "any"]
    /\ good = NoCombo

\* lines 114 and 155: the cache is used only if i.cacheEnabled
UsesCacheAlways(enabled) == TRUE
UsesCache(enabled) == enabled

\* IdentifyNode lines 95-122: validation, then the cache lookup.
\* getErr: GetByKey reports an error (and no object).
IdentifyNodeBegin(c, pid, getErr) ==
    /\ ipc[c] = "idle"
    /\ c \in ActiveCallers
    /\ calls < MaxCalls
    /\ calls' = calls + 1
    /\ providerID' = [providerID EXCEPT ![c] = pid]
    /\ LET parsed == ParseProviderID(pid) IN
       IF parsed.err # NoErr
       THEN /\ getErr = FALSE
            /\ ipc' = [ipc EXCEPT ![c] = "done"]
            /\ result' = [result EXCEPT ![c] = [err |-> parsed.err, info |-> <<>>]]
            /\ UNCHANGED <<instanceID, cache, cacheGets, gotAt>>
       ELSE /\ instanceID' = [instanceID EXCEPT ![c] = parsed.instanceID]
            /\ IF UsesCache(cacheEnabled)
               THEN LET got == IF getErr
                               THEN [obj |-> <<>>, exists |-> FALSE, store |-> cache]
                               ELSE GetByKey(cache, parsed.instanceID, now)
                    IN /\ cache' = got.store
                       /\ cacheGets' = [cacheGets EXCEPT ![c] = <<parsed.instanceID>>]
                       /\ gotAt' = [gotAt EXCEPT ![c] = now]
                       /\ IF got.exists
                          THEN /\ ipc' = [ipc EXCEPT ![c] = "done"]
                               /\ result' = [result EXCEPT ![c] =
                                               [err |-> NoErr, info |-> got.obj]]
                          ELSE /\ ipc' = [ipc EXCEPT ![c] = "getInstance"]
                               /\ UNCHANGED result
               ELSE /\ getErr = FALSE
                    /\ ipc' = [ipc EXCEPT ![c] = "getInstance"]
                    /\ UNCHANGED <<cache, cacheGets, gotAt, result>>
    /\ cacheErrs' = [cacheErrs EXCEPT ![c] = IF getErr THEN {"GetByKey"} ELSE {}]
    /\ UNCHANGED <<cacheEnabled, now, cloudCalls, cachePuts, requested, respShape,
                   described, describes, firstPut, lookedAt, observed, workload>>
    /\ UNCHANGED bootVars

\* IdentifyNode lines 124-152: DescribeInstances answers with resp; the state
\* check and the label derivation follow.
IdentifyNodeLookup(c, resp) ==
    /\ ipc[c] = "getInstance"
    /\ cloudCalls' = [cloudCalls EXCEPT ![c] = @ + 1]
    /\ requested' = [requested EXCEPT ![c] = <<instanceID[c]>>]
    /\ respShape' = [respShape EXCEPT ![c] =
                        IF resp.err THEN <<>>
                        ELSE << [r \in 1..Len(resp.Reservations) |->
                                   Len(resp.Reservations[r])] >>]
    /\ described' = [described EXCEPT ![c] = getInstance(resp).instance]
    /\ describes' = describes + 1
    /\ LET got == getInstance(resp) IN
       IF got.err # NoErr
       THEN /\ ipc' = [ipc EXCEPT ![c] = "done"]
            /\ result' = [result EXCEPT ![c] = [err |-> got.err, info |-> <<>>]]
       ELSE LET instance == got.instance[1]
                instanceState == InstanceState(instance)
            IN IF instanceState # InstanceStateNameRunning
               THEN /\ ipc' = [ipc EXCEPT ![c] = "done"]
                    /\ result' = [result EXCEPT ![c] =
                                    [err |-> ErrState(instanceState), info |-> <<>>]]
               ELSE /\ result' = [result EXCEPT ![c] =
                                    [err |-> NoErr,
                                     info |-> <<BuildInfo(instanceID[c], instance)>>]]
                    /\ ipc' = [ipc EXCEPT ![c] =
                                 IF UsesCache(cacheEnabled) THEN "cacheAdd"
                                 ELSE "done"]
    /\ lookedAt' = [lookedAt EXCEPT ![c] = IF ipc'[c] = "cacheAdd" THEN now ELSE -1]
    /\ UNCHANGED <<cacheEnabled, cache, now, providerID, instanceID, cacheGets,
                   cachePuts, cacheErrs, gotAt, firstPut, observed, calls,
                   workload>>
    /\ UNCHANGED bootVars

\* lines 156-162: what IdentifyNode returns after cache.Add; an error of Add
\* is logged and the Info is returned
ReturnAfterAddFails(res, addErr) ==
    IF addErr THEN [err |-> <<"Failed to add node identity info to cache">>,
                    info |-> <<>>]
    ELSE res
ReturnAfterAdd(res, addErr) == res

\* IdentifyNode lines 154-162: add the Info to the cache and return it.
\* addErr: cache.Add reports an error (and stores nothing).
IdentifyNodeCacheAdd(c, addErr) ==
    /\ ipc[c] = "cacheAdd"
    /\ cachePuts' = [cachePuts EXCEPT ![c] = @ + 1]
    /\ cache' = IF addErr THEN cache ELSE CacheAdd(cache, result[c].info[1], now)
    /\ ipc' = [ipc EXCEPT ![c] = "done"]
    /\ cacheErrs' = [cacheErrs EXCEPT ![c] = IF addErr THEN @ \cup {"Add"} ELSE @]
    /\ firstPut' = IF addErr \/ instanceID[c] \in DOMAIN firstPut THEN firstPut
                   ELSE MapPut(firstPut, instanceID[c], now)
    /\ observed' = IF addErr THEN observed
                   ELSE MapPut(observed, instanceID[c], lookedAt[c])
    /\ lookedAt' = [lookedAt EXCEPT ![c] = -1]
    /\ result' = [result EXCEPT ![c] = ReturnAfterAdd(@, addErr)]
    /\ UNCHANGED <<cacheEnabled, now, providerID, instanceID, cloudCalls,
                   cacheGets, requested, respShape, described, describes, gotAt,
                   calls, workload>>
    /\ UNCHANGED bootVars

\* the caller takes the returned pair; the goroutine is free for another call
CallerReturn(c) ==
    /\ ipc[c] = "done"
    /\ ipc' = [ipc EXCEPT ![c] = "idle"]
    /\ providerID' = [providerID EXCEPT ![c] = <<>>]
    /\ instanceID' = [instanceID EXCEPT ![c] = <<>>]
    /\ result' = [result EXCEPT ![c] = NoResult]
    /\ cloudCalls' = [cloudCalls EXCEPT ![c] = 0]
    /\ cacheGets' = [cacheGets EXCEPT ![c] = <<>>]
    /\ cachePuts' = [cachePuts EXCEPT ![c] = 0]
    /\ requested' = [requested EXCEPT ![c] = <<>>]
    /\ respShape' = [respShape EXCEPT ![c] = <<>>]
    /\ described' = [described EXCEPT ![c] = <<>>]
    /\ cacheErrs' = [cacheErrs EXCEPT ![c] = {}]
    /\ gotAt' = [gotAt EXCEPT ![c] = -1]
    /\ UNCHANGED <<cacheEnabled, cache, now, describes, firstPut, lookedAt,
                   observed, calls, workload>>
    /\ UNCHANGED bootVars

\* time passes
Tick(d) ==
    /\ now + d <= MaxTime
    /\ now' = now + d
    /\ UNCHANGED <<cacheEnabled, cache, ipc, providerID, instanceID, result,
                   cloudCalls, cacheGets, cachePuts, requested, respShape,
                   described, cacheErrs, describes, gotAt, firstPut, lookedAt,
                   observed, calls, workload>>
    /\ UNCHANGED bootVars

IdentNext ==
    \/ \E c \in Callers, pid \in Nodes, getErr \in CacheFaults :
          IdentifyNodeBegin(c, pid, getErr)
    \/ \E c \in Callers, resp \in Cloud : IdentifyNodeLookup(c, resp)
    \/ \E c \in Callers, addErr \in CacheFaults : IdentifyNodeCacheAdd(c, addErr)
    \/ \E c \in Callers : CallerReturn(c)
    \/ \E d \in TickSteps : Tick(d)

(***************************************************************************)
(* Specifications.  The script and the identifier are separate programs:   *)
(* each specification runs one of them and leaves the other at rest.       *)
(***************************************************************************)
BootSpec == BootInit /\ [][BootNext]_vars

\* the shell runs the script's next command whenever there is one
BootFairSpec == BootSpec /\ WF_vars(ScriptStep)

IdentSpec == IdentInit /\ [][IdentNext]_vars

(***************************************************************************)
(* Claims about IdentifyNode                                               *)
(***************************************************************************)
IsSlash(ch) == ch = "/"
\* the provider id starts with the six characters aws://
StartsWithScheme(pid) == Len(pid) >= 6 /\ [k \in 1..6 |-> pid[k]] = Aws
\* number of slash-delimited segments of pid after its first six characters
SegmentsAfterScheme(pid) ==
    Len(SelectSeq(SubSeq(pid, 7, Len(pid)), IsSlash)) + 1
\* what follows the last slash of pid
LastSegment(pid) ==
    LET slashes == {k \in 1..Len(pid) : pid[k] = "/"}
        lastSlash == CHOOSE k \in slashes : \A j \in slashes : j <= k
    IN IF slashes = {} THEN pid ELSE SubSeq(pid, lastSlash + 1, Len(pid))
Malformed(pid) ==
    \/ pid = <<>>
    \/ ~StartsWithScheme(pid)
    \/ SegmentsAfterScheme(pid) # 3
Rejected(c) ==
    /\ ipc[c] = "done"
    /\ result[c].err \in {ErrNotSet, ErrNotRecognized}
    /\ result[c].info = <<>>

\* C8: for a provider id that is empty, lacks the scheme prefix or does not
\* have exactly 3 slash-delimited segments after the prefix, IdentifyNode
\* returns an error without a cache lookup or a DescribeInstances call and
\* leaves the cache as it was, with caching enabled or disabled.
C8_MalformedRejected ==
    /\ [](\A c \in Callers :
            (ipc[c] # "idle" /\ Malformed(providerID[c])) =>
                /\ Rejected(c)
                /\ cacheGets[c] = <<>>
                /\ cloudCalls[c] = 0
                /\ requested[c] = <<>>
                /\ cachePuts[c] = 0)
    /\ [][\A c \in Callers :
            (ipc[c] = "idle" /\ ipc'[c] # "idle" /\ Malformed(providerID'[c]))
                => cache' = cache]_vars

\* C8 witness: a four-segment provider id rejected while the cache holds an
\* entry
C8_Witness ==
    /\ cacheEnabled
    /\ DOMAIN cache # {}
    /\ \E c \in Callers :
          /\ ipc[c] = "done"
          /\ providerID[c] = Aws \o Join(<<SegE, SegZ, SegI, SegJ>>, "/")

\* C9 as stated: a provider id scheme://zone/id (the prefix, a zone segment
\* and an instance-id segment) is accepted and id is the instance id used.
C9_Original ==
    \A c \in Callers :
        (/\ ipc[c] # "idle"
         /\ StartsWithScheme(providerID[c])
         /\ SegmentsAfterScheme(providerID[c]) = 2)
        => (~Rejected(c) /\ instanceID[c] = LastSegment(providerID[c]))

\* C9 (amended): a provider id made of the scheme prefix and exactly three
\* slash-delimited segments (aws://<any>/<zone>/<id>, as in aws:///zone/id) is
\* accepted, and the instance id used for the cache lookup and for the
\* DescribeInstances call is exactly the third segment; scheme://zone/id,
\* with two segments, is rejected.
C9_ThirdSegmentIsInstanceID ==
    \A c \in Callers :
        /\ (/\ ipc[c] # "idle"
            /\ StartsWithScheme(providerID[c])
            /\ SegmentsAfterScheme(providerID[c]) = 3)
           => /\ ~Rejected(c)
              /\ instanceID[c] = LastSegment(providerID[c])
              /\ cacheEnabled => cacheGets[c] = <<LastSegment(providerID[c])>>
              /\ cloudCalls[c] > 0 => requested[c] = <<LastSegment(providerID[c])>>
        /\ (/\ ipc[c] # "idle"
            /\ StartsWithScheme(providerID[c])
            /\ SegmentsAfterScheme(providerID[c]) = 2)
           => Rejected(c)

\* C9 witness: aws:///z/j looked up in the cache and in EC2
C9_Witness ==
    \E c \in Callers :
        /\ ipc[c] = "done"
        /\ providerID[c] = NodeJ
        /\ cacheGets[c] # <<>>
        /\ cloudCalls[c] = 1

RECURSIVE SumSeq(_)
SumSeq(q) == IF q = <<>> THEN 0 ELSE Head(q) + SumSeq(Tail(q))
\* the number of instances in the response caller c received
MatchingInstances(c) == SumSeq(respShape[c][1])

\* C10: whenever the DescribeInstances response holds more than one instance,
\* in whatever arrangement across its reservations, IdentifyNode returns an
\* error, no Info, and puts nothing in the cache.
C10_Original ==
    \A c \in Callers :
        (respShape[c] # <<>> /\ MatchingInstances(c) > 1)
        => /\ ipc[c] = "done"
           /\ result[c].err # NoErr
           /\ result[c].info = <<>>
           /\ cachePuts[c] = 0

\* C11: whenever the DescribeInstances response holds no instance,
\* IdentifyNode returns the missing-instance error, and whenever it holds
\* exactly one instance, in whichever reservation, the call is not answered
\* with the missing-instance error.
C11_Original ==
    \A c \in Callers :
        respShape[c] # <<>> =>
            /\ MatchingInstances(c) = 0 =>
                  (ipc[c] = "done" /\ result[c].err = ErrMissing)
            /\ MatchingInstances(c) = 1 => result[c].err # ErrMissing

\* the instance carries a state with a name
HasStateName(inst) == inst.State \notin {NilState, NilName}

\* C12: on a DescribeInstances lookup that yields a single instance,
\* IdentifyNode succeeds only if the instance's state is running; for every
\* other state, a missing state or state name included, it returns the state
\* error (naming the state when there is a name), no Info and therefore no
\* labels, and does not add to the cache.
C12_StateCheck ==
    \A c \in Callers :
        described[c] # <<>> =>
            LET inst == described[c][1] IN
            /\ result[c].err = NoErr <=> inst.State = "running"
            /\ inst.State # "running" =>
                  /\ ipc[c] = "done"
                  /\ Len(result[c].err) = 2
                  /\ result[c].err[1] = "found instance, but state is"
                  /\ HasStateName(inst) => result[c].err[2] = inst.State
                  /\ result[c].info = <<>>
                  /\ cachePuts[c] = 0

\* C12 witness: with caching enabled, a lookup that found an instance without
\* a state has returned
C12_Witness ==
    \E c \in Callers :
        /\ cacheEnabled
        /\ ipc[c] = "done"
        /\ described[c] = <<NoState>>
        /\ result[c].err # NoErr

\* the tag's key starts with the autoscaler-template prefix
Templated(tag) ==
    /\ Len(tag.Key) >= 1
    /\ tag.Key[1] = "k8s.io/cluster-autoscaler/node-template/label/"
\* the tag's key without its first part, the prefix
Stripped(tag) == Tail(tag.Key)
\* the label written for a lifecycle attribute
WorkerLabel(lifecycle) == <<"node-role.kubernetes.io/", lifecycle, "-worker">>
\* positions of the tags of inst that write label k
Writers(inst, k) ==
    {n \in 1..Len(inst.Tags) : Templated(inst.Tags[n]) /\ Stripped(inst.Tags[n]) = k}
\* the labels the claim describes for inst
ExpectedKeys(inst) ==
    {Stripped(inst.Tags[n]) : n \in {j \in 1..Len(inst.Tags) : Templated(inst.Tags[j])}}
    \cup (IF inst.InstanceLifecycle # NilLifecycle
          THEN {WorkerLabel(inst.InstanceLifecycle)} ELSE {})
ExpectedValue(inst, k) ==
    IF Writers(inst, k) # {}
    THEN inst.Tags[CHOOSE n \in Writers(inst, k) : \A j \in Writers(inst, k) : j <= n].Value
    ELSE "true"

\* C13: the labels of an Info built from a DescribeInstances lookup are
\* exactly the lifecycle worker label with value "true" when the instance has
\* a lifecycle attribute, and for every tag whose key starts with the
\* autoscaler-template prefix the key without the prefix mapped to the tag's
\* value; other tags give no label; for a key written more than once the
\* last write (tags after the lifecycle label, later tags after earlier
\* ones) gives the value.
C13_Labels ==
    \A c \in Callers :
        (described[c] # <<>> /\ result[c].info # <<>>) =>
            LET inst == described[c][1]
                labels == result[c].info[1].Labels IN
            /\ DOMAIN labels = ExpectedKeys(inst)
            /\ \A k \in DOMAIN labels : labels[k] = ExpectedValue(inst, k)

\* C13 witness: an Info built from an instance whose tags write one label
\* twice and overwrite the lifecycle label
C13_Witness ==
    \E c \in Callers :
        /\ ipc[c] = "done"
        /\ described[c] = <<RunningTwice>>
        /\ result[c].info # <<>>
        /\ result[c].info[1].Labels[<<"foo">>] = "baz"
        /\ result[c].info[1].Labels[WorkerLabel("spot")] = "false"

\* caller c starts a call in this step
Starts(c) == ipc[c] = "idle" /\ ipc'[c] # "idle"
\* the provider id of the call c starts is accepted
Accepted(c) ==
    StartsWithScheme(providerID'[c]) /\ SegmentsAfterScheme(providerID'[c]) = 3
\* the cache holds an entry for instance id k
Cached(k) == k \in DOMAIN cache
\* minutes since the entry of k was put
Age(k) == now - cache[k].Timestamp

\* C14: with caching enabled and a working cache, a call finding no entry
\* for its instance id and a single running instance makes one
\* DescribeInstances request and puts its Info under the instance id; a call
\* started while the entry is no older than the TTL returns the cached Info
\* without a DescribeInstances request; a call started once the entry is
\* older than the TTL goes on to a DescribeInstances request.  (Two calls in
\* the TTL window: one request; a third after expiry: a second request.)
C14_CacheServed ==
    [][\A c \in Callers :
        LET k == LastSegment(providerID'[c]) IN
        /\ (Starts(c) /\ cacheEnabled /\ Accepted(c) /\ cacheErrs'[c] = {}
              /\ Cached(k) /\ Age(k) <= 60)
           => /\ ipc'[c] = "done"
              /\ result'[c] = [err |-> NoErr, info |-> <<cache[k].Obj>>]
              /\ cloudCalls'[c] = 0
              /\ describes' = describes
        /\ (Starts(c) /\ cacheEnabled /\ Accepted(c)
              /\ (~Cached(k) \/ Age(k) > 60))
           => /\ ipc'[c] = "getInstance"
              /\ cloudCalls'[c] = 0
        /\ (ipc[c] = "getInstance" /\ ipc'[c] # "getInstance")
           => /\ cloudCalls'[c] = 1
              /\ describes' = describes + 1
        /\ (ipc[c] = "cacheAdd" /\ ipc'[c] = "done" /\ cacheErrs'[c] = {})
           => /\ instanceID[c] \in DOMAIN cache'
              /\ cache'[instanceID[c]] = [Obj |-> result[c].info[1], Timestamp |-> now]
    ]_vars

\* C14 witness: three calls for one instance id, the third after the TTL has
\* passed and answered by the second DescribeInstances request
C14_Witness ==
    /\ workload = "responses"
    /\ cacheEnabled
    /\ calls = 3
    /\ describes = 2
    /\ now > cacheTTL
    /\ ipc[1] = "done"
    /\ cloudCalls[1] = 1
    /\ cachePuts[1] = 1
    /\ cacheErrs[1] = {}
    /\ cache[SegI].Timestamp = now

\* the call caller c starts in this step is answered from the cache
ServedFromCache(c) ==
    Starts(c) /\ ipc'[c] = "done" /\ result'[c].info # <<>>
\* caller c's cache.Add succeeds in this step
Puts(c) == ipc[c] = "cacheAdd" /\ ipc'[c] = "done" /\ "Add" \notin cacheErrs'[c]

\* C15: a cache get returns only an entry put no more than 60 minutes
\* before; a put stores the Info under its instance id, replacing an entry
\* already there, with the time of this put; an entry changes by a put only,
\* so that an entry put again is returned until 60 minutes after its latest
\* put, even when its first put is more than 60 minutes back.
C15_TTLExpiry ==
    [][\A c \in Callers :
        LET k == LastSegment(providerID'[c]) IN
        /\ ServedFromCache(c) =>
              /\ Cached(k)
              /\ Age(k) <= 60
              /\ result'[c].info = <<cache[k].Obj>>
        /\ Puts(c) =>
              /\ instanceID[c] \in DOMAIN cache'
              /\ cache'[instanceID[c]].Obj = result[c].info[1]
              /\ cache'[instanceID[c]].Timestamp = now
        /\ \A j \in DOMAIN cache \cap DOMAIN cache' :
              cache'[j] # cache[j] => \E d \in Callers : Puts(d) /\ instanceID[d] = j
        /\ (Starts(c) /\ cacheEnabled /\ Accepted(c) /\ cacheErrs'[c] = {}
              /\ Cached(k) /\ Age(k) <= 60 /\ now - firstPut[k] > 60)
           => ServedFromCache(c)
    ]_vars

\* C15 witness: a call answered from the cache more than a TTL after the
\* first put of its entry, which was put again since
C15_Witness ==
    \E c \in Callers :
        /\ ipc[c] = "done"
        /\ cloudCalls[c] = 0
        /\ result[c].info # <<>>
        /\ gotAt[c] = now
        /\ now - firstPut[instanceID[c]] > cacheTTL
        /\ cache[instanceID[c]].Timestamp > firstPut[instanceID[c]]
        /\ cache[instanceID[c]].Timestamp < now

\* the entries of the store a get at time t can return
Visible(store, t) ==
    [k \in {j \in DOMAIN store : t - store[j].Timestamp <= 60} |-> store[k]]

\* C16: a cache put is made only by a call whose provider id was accepted,
\* whose DescribeInstances response held exactly one instance, in the
\* running state, and whose labels are derived; a call ending in an error has
\* made no put; and no step other than a put changes what the cache returns,
\* so a call ending in an error or waiting for DescribeInstances leaves the
\* cache as it was.
C16_Original ==
    /\ [](\A c \in Callers :
            (ipc[c] = "cacheAdd" \/ cachePuts[c] > 0) =>
                /\ ~Malformed(providerID[c])
                /\ respShape[c] # <<>>
                /\ MatchingInstances(c) = 1
                /\ described[c] # <<>>
                /\ described[c][1].State = "running"
                /\ result[c].err = NoErr
                /\ result[c].info # <<>>
                /\ DOMAIN result[c].info[1].Labels = ExpectedKeys(described[c][1]))
    /\ [](\A c \in Callers :
            (ipc[c] = "done" /\ result[c].err # NoErr) => cachePuts[c] = 0)
    /\ [][\/ \E c \in Callers : Puts(c)
          \/ now' # now
          \/ Visible(cache', now) = Visible(cache, now)]_vars

\* the error of caller c's result is the one its DescribeInstances response
\* calls for
LookupError(c) ==
    \/ respShape[c] = <<>> /\ cloudCalls[c] = 1 /\ result[c].err = ErrDescribe
    \/ /\ respShape[c] # <<>>
       /\ described[c] = <<>>
       /\ result[c].err \in {ErrMissing, ErrMultiple}
    \/ /\ described[c] # <<>>
       /\ described[c][1].State # "running"
       /\ result[c].err[1] = "found instance, but state is"

\* C17: a call whose cache get reported an error goes on to DescribeInstances
\* as after a miss and returns what the lookup gives; a call whose cache put
\* reported an error returns the Info it built, without error; no call returns
\* a failure of the cache as its error.
C17_CacheBestEffort ==
    \A c \in Callers :
        /\ "GetByKey" \in cacheErrs[c] =>
              /\ ipc[c] \in {"getInstance", "cacheAdd", "done"}
              /\ ipc[c] = "getInstance" => (cloudCalls[c] = 0 /\ result[c] = NoResult)
              /\ ipc[c] \in {"cacheAdd", "done"} => cloudCalls[c] = 1
        /\ "Add" \in cacheErrs[c] =>
              /\ ipc[c] = "done"
              /\ result[c].err = NoErr
              /\ described[c] # <<>>
              /\ result[c].info = <<BuildInfo(instanceID[c], described[c][1])>>
        /\ (cacheErrs[c] # {} /\ result[c].err # NoErr) => LookupError(c)

\* C17 witness: a call returns its Info after both its cache get and its
\* cache put reported an error
C17_Witness ==
    \E c \in Callers :
        /\ ipc[c] = "done"
        /\ cacheErrs[c] = {"GetByKey", "Add"}
        /\ result[c].err = NoErr
        /\ result[c].info # <<>>

(***************************************************************************)
(* Claims about the hand-off to nodeup                                     *)
(***************************************************************************)
\* C18: once ./nodeup is started the script goes on to its end without
\* waiting for the process to end (its next step is enabled while the process
\* runs), and the status the process ends with does not change the exit
\* status of the script.
C18_Original ==
    /\ bpc = "nodeup" => ENABLED NodeupExits
    /\ (bpc = "exited" /\ agentRuns > 0) => exitStatus = 0

\* the checksum published for the nodeup build of the host's architecture
ExpectedHash(a) ==
    IF a \in {x86_64, amd64, i586_64} THEN NODEUP_HASH_AMD64
    ELSE IF a \in {aarch64, arm64} THEN NODEUP_HASH_ARM64
    ELSE "no build"

\* C19: ./nodeup is started at most once, and only when download-or-bust has
\* returned, the file has the checksum expected for the host's architecture
\* and is executable; before that, and so while the fetch is retrying,
\* nothing of nodeup has started.
C19_HandOffOrdering ==
    /\ agentRuns <= 1
    /\ (agentRuns > 0 \/ nodeupProc # "none") =>
          /\ bpc \in {"nodeup", "exited"}
          /\ file \in Contents
          /\ Sha256(file) = ExpectedHash(arch)
          /\ fileExec
    /\ (InFetch \/ bpc \in {"download-release", "returned", "chmodded"}) =>
          /\ agentRuns = 0
          /\ nodeupProc = "none"

\* C19 witness: nodeup runs on an arm64 host after a fetch that slept
\* between two passes
C19_Witness ==
    /\ arch = aarch64
    /\ bpc = "nodeup"
    /\ nodeupProc = "running"
    /\ sleeps >= 1
    /\ file = NodeupArm64

\* C20: with calls running concurrently and their cache gets, lookups and
\* cache puts interleaved in any order, every cache entry under key k holds
\* an Info with instance id k, and every Info a call returns has the instance
\* id of the call's provider id.
C20_CacheIntegrity ==
    /\ \A k \in DOMAIN cache : cache[k].Obj.InstanceID = k
    /\ \A c \in Callers :
          result[c].info # <<>> =>
              result[c].info[1].InstanceID = LastSegment(providerID[c])

\* C20 witness: two overlapping calls for one instance id both missed the
\* cache, looked the instance up and put their differing Infos, while the
\* cache also holds the other instance
C20_Witness ==
    /\ cacheEnabled
    /\ now = 0
    /\ \A c \in {1, 2} :
          /\ ipc[c] = "done"
          /\ providerID[c] = NodeI
          /\ cloudCalls[c] = 1
          /\ cachePuts[c] = 1
    /\ result[1].info # result[2].info
    /\ cache[SegI].Obj = result[2].info[1]
    /\ SegJ \in DOMAIN cache

\* C21: with caching enabled, every Info a call returns from the cache comes
\* from a DescribeInstances request made no more than 60 minutes before the
\* cache get that returns it, however the calls' gets, requests and puts and
\* the advance of the clock interleave.
C21_Original ==
    [][\A c \in Callers :
        LET k == LastSegment(providerID'[c]) IN
        (cacheEnabled /\ ServedFromCache(c)) =>
            /\ k \in DOMAIN observed
            /\ now - observed[k] <= 60
    ]_vars

\* C22: with caching disabled a call makes no cache get and no cache put, the
\* cache stays empty, and a finished call whose provider id was accepted has
\* made exactly one DescribeInstances request; with caching enabled or
\* disabled no call makes more than one DescribeInstances request, whether it
\* ends with an Info or with an error of the request, a missing instance,
\* multiple instances or a wrong state, and a call answered from the cache or
\* rejected for its provider id makes none.
C22_NoCacheNoRetry ==
    \A c \in Callers :
        /\ cloudCalls[c] <= 1
        /\ cloudCalls[c] <= describes
        /\ (ipc[c] = "done"
              /\ result[c].err \notin {NoErr, ErrNotSet, ErrNotRecognized})
              => cloudCalls[c] = 1
        /\ (ipc[c] = "done" /\ Malformed(providerID[c])) => cloudCalls[c] = 0
        /\ ~cacheEnabled =>
              /\ cacheGets[c] = <<>>
              /\ gotAt[c] = -1
              /\ cachePuts[c] = 0
              /\ ipc[c] # "cacheAdd"
              /\ cache = [k \in {} |-> 0]
              /\ (ipc[c] \in {"getInstance", "done"}
                    /\ ~Malformed(providerID[c]))
                 => cloudCalls[c] = (IF ipc[c] = "done" THEN 1 ELSE 0)
              \* where every provider id is well-formed, the requests made
              \* are as many as the calls past their request
              /\ workload = "responses" =>
                    describes + Cardinality({d \in Callers : ipc[d] = "getInstance"})
                       = calls

\* C22 witness: with caching disabled the third call for one node in a row
\* has ended on multiple instances after its single DescribeInstances
\* request, the third request in all
C22_Witness ==
    /\ workload = "responses"
    /\ ~cacheEnabled
    /\ calls = 3
    /\ describes = 3
    /\ ipc[1] = "done"
    /\ result[1].err = ErrMultiple
    /\ cloudCalls[1] = 1
    /\ now > cacheTTL

=============================================================================
